---- MODULE Spec2Model ----
(***************************************************************************)
(* The Rendezvous orchestrator of src/utils/Rendezvous.ts: one session     *)
(* object driving a device-linking handshake over an injected channel.     *)
(*                                                                         *)
(* A method is a sequence of steps separated by its awaits: the action     *)
(* that starts a method runs its synchronous prefix up to the first await, *)
(* and every later action is the resolution of the pending await followed  *)
(* by the synchronous code up to the next await (or the return / throw).   *)
(* Values produced by the collaborators (channel, login, device store) are *)
(* inputs, drawn from small sets when the await resolves.  channel.connect,*)
(* the login request and the login-token request may reject, and           *)
(* channel.receive may yield nothing; the other calls are followed where   *)
(* they complete.  Methods are invoked one at a time, as the owner of a    *)
(* session must; cancel() may be invoked while another method is suspended.*)
(* The observer hooks are public fields the owner may assign at any time.  *)
(* A second specification follows two sessions, one on each device, joined *)
(* by a channel that delivers what was sent.                               *)
(*                                                                         *)
(* JavaScript values:  undefined is the string Undefined for string-typed  *)
(* values, and the empty tuple None for object-typed ones, a present       *)
(* object x being Some(x).                                                 *)
(***************************************************************************)
EXTENDS Integers, Sequences, FiniteSets, TLC

VARIABLES
    cli,                    \* this.cli          (constructor argument, optional)
    code,                   \* this.code
    newDeviceId,            \* this.newDeviceId
    newDeviceKeys,          \* this.newDeviceKeys
    onConfirmationDigits,   \* this.onConfirmationDigits is set
    onCancelled,            \* this.onCancelled is set
    op,                     \* the method in flight, or the one that ended last
    pc,                     \* the await the method in flight is suspended at
    calls,                  \* calls made to collaborators by that method, in order
    ret,                    \* how that method ended
    generated,              \* number of channel.generateCode() invocations so far
    cancelled,              \* reasons passed to channel.transport.cancel so far
    role,                   \* which device of a pair this session runs on
    parked                  \* the session on the other device of the pair

vars == <<cli, code, newDeviceId, newDeviceKeys, onConfirmationDigits, onCancelled,
          op, pc, calls, ret, generated, cancelled,
          role, parked>>

hooks == <<onConfirmationDigits, onCancelled>>
pair == <<role, parked>>
session == <<cli, code, newDeviceId, newDeviceKeys, hooks>>

-----------------------------------------------------------------------------
(* Bounds *)

\* channel.generateCode() invocations followed by the model
MaxGenerated == 2
\* channel.transport.cancel() invocations followed by the model
MaxCancelled == 1

-----------------------------------------------------------------------------
(* JavaScript values *)

Undefined == "undefined"
None == <<>>
Some(x) == <<x>>
Value(o) == o[1]

\* !x for a string-typed x
Falsy(s) == s = Undefined \/ s = ""

-----------------------------------------------------------------------------
(* Input domains *)

KeyIds == {"ed25519", "curve25519"}
KeyValues == {"K1", "K2"}
\* Record<string, string>: every map from some key ids to key values
KeyMaps == UNION {[ks -> KeyValues] : ks \in SUBSET KeyIds}
\* the key maps a device reports about itself: the stored ones may differ
\* from them in the number of keys, in the key ids and in the values
OwnKeyMaps == {m \in KeyMaps : (\A k \in DOMAIN m : m[k] = "K1")
                               /\ (DOMAIN m # {} => "ed25519" \in DOMAIN m)}
DeviceIds == {"DEV1", "DEV2"}
UserIds == {"@alice:example.org", "@bob:example.org"}
Homeservers == {"https://example.org"}
LoginTokens == {"tok1", "tok2"}
Digits == {"1234"}
\* what channel.generateCode() resolves to
ChannelCodes == {[intent |-> "login.start"], [intent |-> "login.reciprocate"]}
DefaultTimeout == 10000
Timeouts == {0, DefaultTimeout}

Outcomes == {Undefined, "declined", "success"}

\* A payload as channel.receive() yields it and channel.send() takes it: a
\* field the object does not carry is undefined.
Payloads ==
    [outcome : Outcomes,
     user : {Undefined} \cup UserIds,
     homeserver : {Undefined, ""} \cup Homeservers,
     login_token : {Undefined, ""} \cup LoginTokens,
     deviceId : {Undefined} \cup DeviceIds,
     deviceKeys : {None} \cup {Some(m) : m \in OwnKeyMaps}]

EmptyPayload ==
    [outcome |-> Undefined, user |-> Undefined, homeserver |-> Undefined,
     login_token |-> Undefined, deviceId |-> Undefined, deviceKeys |-> None]

\* IMatrixClientCreds as sendLoginRequest resolves them
Creds == [deviceId : DeviceIds, userId : UserIds, homeserverUrl : Homeservers]

\* DeviceInfo: the published keys of a stored device
DeviceInfos == [keys : KeyMaps]
\* getRawStoredDevicesForUser: a map from some device ids to stored devices
RawStores == UNION {[ds -> [keys : OwnKeyMaps]] : ds \in SUBSET DeviceIds}
\* RendezvousCancellationReason
Reasons == {"UserDeclined", "UserCancelled"}

\* the MatrixClient a session is constructed with
Clients == [userId : {"@alice:example.org"}, baseUrl : Homeservers]
\* what setDeviceVerification resolves to: DeviceInfo | CrossSigningInfo
VerificationRecords == {"DeviceInfo", "CrossSigningInfo"}

-----------------------------------------------------------------------------
(* How a method ends, and what it calls *)

NotEnded == [kind |-> "none", val |-> None, err |-> None]
Return(v) == [kind |-> "return", val |-> v, err |-> None]
\* throw new Error(msg + arg)
Throw(msg, arg) == [kind |-> "throw", val |-> None, err |-> Some([msg |-> msg, arg |-> arg])]
\* an awaited promise rejected: the rejection leaves the method as it came
Rejected(fn) == Throw("rejected", fn)
\* a property of undefined was read
TypeError(what) == Throw("TypeError", what)

Call(fn, args) == [fn |-> fn, args |-> args, res |-> None]

\* the last call made gets its result
Resolve(cs, v) == [cs EXCEPT ![Len(cs)].res = Some(v)]

CallsOf(fn) == {i \in DOMAIN calls : calls[i].fn = fn}
Called(fn) == CallsOf(fn) # {}

Idle == pc = "idle"

Begin(name) ==
    /\ Idle
    /\ op' = name

End(r) ==
    /\ pc' = "idle"
    /\ ret' = r

-----------------------------------------------------------------------------
(* JSON.stringify of a rendezvous code *)

JSONStringify(c) == "{\"intent\":\"" \o c.intent \o "\"}"

Init ==
    /\ cli \in {None} \cup {Some(c) : c \in Clients}
    /\ code = Undefined
    /\ newDeviceId = Undefined
    /\ newDeviceKeys = None
    /\ onConfirmationDigits = FALSE
    /\ onCancelled = FALSE
    /\ op = ""
    /\ pc = "idle"
    /\ calls = <<>>
    /\ ret = NotEnded
    /\ generated = 0
    /\ cancelled = <<>>
    /\ role = "alone"
    /\ parked = None

-----------------------------------------------------------------------------
(* The observer hooks are public fields, assigned by the owner of the session *)

\* rendezvous.onConfirmationDigits = ...
SetOnConfirmationDigits ==
    /\ ~onConfirmationDigits
    /\ onConfirmationDigits' = TRUE
    /\ UNCHANGED <<cli, code, newDeviceId, newDeviceKeys, onCancelled,
                   op, pc, calls, ret, generated, cancelled, pair>>

\* rendezvous.onCancelled = ...
SetOnCancelled ==
    /\ ~onCancelled
    /\ onCancelled' = TRUE
    /\ UNCHANGED <<cli, code, newDeviceId, newDeviceKeys, onConfirmationDigits,
                   op, pc, calls, ret, generated, cancelled, pair>>

-----------------------------------------------------------------------------
(* generateCode() *)

\* the guard forgotten
CodeNeverHeld(c) == FALSE

\* if (this.code) return;
CodeHeld(c) == ~Falsy(c)

GenerateCode ==
    /\ Begin("generateCode")
    /\ IF CodeHeld(code)
       THEN /\ calls' = <<>>
            /\ End(Return(None))
            /\ UNCHANGED generated
       ELSE /\ generated < MaxGenerated
            /\ calls' = <<Call("channel.generateCode", <<>>)>>
            /\ generated' = generated + 1
            /\ pc' = "generateCode:generated"
            /\ ret' = NotEnded
    /\ UNCHANGED <<session, cancelled, pair>>

\* this.code = JSON.stringify(await this.channel.generateCode());
GenerateCodeGenerated ==
    /\ pc = "generateCode:generated"
    /\ \E c \in ChannelCodes :
        /\ code' = JSONStringify(c)
        /\ calls' = Resolve(calls, c)
    /\ End(Return(None))
    /\ UNCHANGED <<cli, newDeviceId, newDeviceKeys, hooks, op, generated, cancelled, pair>>

-----------------------------------------------------------------------------
(* cancel(reason), userCancelled() *)

\* the reason forwarded to the channel twice
CancelTwice(reason) ==
    /\ Len(cancelled) < MaxCancelled
    /\ cancelled' = cancelled \o <<reason, reason>>
    /\ UNCHANGED <<session, op, pc, calls, ret, generated, pair>>

\* await this.channel.transport.cancel(reason): the call is made as cancel()
\* is entered, whatever else the session is suspended at
Cancel(reason) ==
    /\ Len(cancelled) < MaxCancelled
    /\ cancelled' = Append(cancelled, reason)
    /\ UNCHANGED <<session, op, pc, calls, ret, generated, pair>>

\* this.cancel(RendezvousCancellationReason.UserCancelled)
UserCancelled == Cancel("UserCancelled")

-----------------------------------------------------------------------------
(* completeOnNewDevice() *)

\* const { homeserver, login_token, outcome } = _res
OfferView(p) ==
    [homeserver |-> p.homeserver, login_token |-> p.login_token, outcome |-> p.outcome]

\* the login token not looked at
CheckHomeserverOnly(v) ==
    IF Falsy(v.homeserver) THEN Throw("No homeserver returned", "") ELSE NotEnded

\* if (!homeserver) throw ...;  if (!login_token) throw ...
\* NotEnded when both are there
CheckOffer(v) ==
    IF Falsy(v.homeserver) THEN Throw("No homeserver returned", "")
    ELSE IF Falsy(v.login_token) THEN Throw("No login token returned", "")
    ELSE NotEnded

\* the outcome looked at only once the fields were found complete
IsDeclinedAndComplete(v) == v.outcome = "declined" /\ CheckOffer(v) = NotEnded

\* if (outcome === 'declined')
IsDeclined(v) == v.outcome = "declined"

\* nothing received taken for a failure
NoResultThrows == Throw("Nothing received", "")

\* if (!_res) return undefined;      if (!res) return undefined;
NoResult == Return(None)

\* the login attempted without the token of the offer
LoginRequestWithoutToken(v) ==
    Call("sendLoginRequest", <<v.homeserver, Undefined, "m.login.token", Undefined>>)

\* sendLoginRequest(homeserver, undefined, "m.login.token", { token: login_token })
LoginRequest(v) ==
    Call("sendLoginRequest", <<v.homeserver, Undefined, "m.login.token", v.login_token>>)

\* const data = { outcome: 'success', deviceId, deviceKeys }
KeysReport(deviceId, deviceKeys) ==
    [EmptyPayload EXCEPT !.outcome = "success", !.deviceId = deviceId,
                         !.deviceKeys = deviceKeys]

\* !devices || !devices[deviceId]
DeviceUnknown(devices, deviceId) ==
    devices = None \/ deviceId \notin DOMAIN Value(devices)

\* the keys of some stored device of the user
StoredKeysOfAny(devices, deviceId) ==
    Value(devices)[CHOOSE d \in DOMAIN Value(devices) : d # deviceId
                                                       \/ DOMAIN Value(devices) = {deviceId}].keys

\* devices[deviceId].keys
StoredKeys(devices, deviceId) == Value(devices)[deviceId].keys

\* the missing device passed over and the method returning nothing
UnknownDeviceIgnored(userId, deviceId) == Return(None)

\* throw new Error("Unknown device " + userId + ":" + deviceId);
UnknownDeviceError(userId, deviceId) ==
    Throw("Unknown device ", userId \o ":" \o deviceId)

\* the credentials the pending method logged in with
Login == Value(calls[CHOOSE i \in CallsOf("sendLoginRequest") : TRUE].res)

CompleteOnNewDevice ==
    /\ Begin("completeOnNewDevice")
    /\ calls' = <<Call("channel.connect", <<>>)>>
    /\ pc' = "complete:connect"
    /\ ret' = NotEnded
    /\ UNCHANGED <<session, generated, cancelled, pair>>

\* const digits = await this.channel.connect();
\* if (this.onConfirmationDigits) this.onConfirmationDigits(digits);
\* the digits kept from the observer
ConfirmationDigitsDropped(digits, hook) == <<>>

\* if (this.onConfirmationDigits) { this.onConfirmationDigits(digits); }
ConfirmationDigits(digits, hook) ==
    IF hook THEN <<Call("onConfirmationDigits", <<digits>>)>> ELSE <<>>

CompleteConnected ==
    /\ pc = "complete:connect"
    /\ \/ /\ calls' = calls
          /\ End(Rejected("channel.connect"))
       \/ \E digits \in Digits :
            /\ calls' = Resolve(calls, digits)
                         \o ConfirmationDigits(digits, onConfirmationDigits)
                         \o <<Call("channel.receive", <<>>)>>
            /\ pc' = "complete:receive"
            /\ ret' = ret
    /\ UNCHANGED <<session, op, generated, cancelled, pair>>

\* const _res = await this.channel.receive();  ... up to the next await
CompleteReceived ==
    /\ pc = "complete:receive"
    /\ \/ /\ calls' = calls
          /\ End(NoResult)
          /\ UNCHANGED cancelled
       \/ \E p \in Payloads :
            LET v == OfferView(p)
                got == Resolve(calls, v)
            IN  IF IsDeclined(v)
                THEN /\ Len(cancelled) < MaxCancelled
                     /\ calls' = Append(got, Call("channel.transport.cancel", <<"UserDeclined">>))
                     /\ cancelled' = Append(cancelled, "UserDeclined")
                     /\ pc' = "complete:cancel"
                     /\ ret' = ret
                ELSE IF CheckOffer(v) # NotEnded
                THEN /\ calls' = got
                     /\ End(CheckOffer(v))
                     /\ UNCHANGED cancelled
                ELSE /\ calls' = Append(got, LoginRequest(v))
                     /\ pc' = "complete:login"
                     /\ ret' = ret
                     /\ UNCHANGED cancelled
    /\ UNCHANGED <<session, op, generated, pair>>

\* await this.cancel(RendezvousCancellationReason.UserDeclined); return undefined;
CompleteCancelled ==
    /\ pc = "complete:cancel"
    /\ calls' = calls
    /\ End(Return(None))
    /\ UNCHANGED <<session, op, generated, cancelled, pair>>

\* a rejected login request made once more
CompleteLoggedInRetry ==
    /\ pc = "complete:login"
    /\ \/ /\ Cardinality(CallsOf("sendLoginRequest")) < 2
          /\ calls' = Append(calls, [calls[Len(calls)] EXCEPT !.res = None])
          /\ pc' = pc
          /\ ret' = ret
       \/ /\ calls' = calls
          /\ End(Rejected("sendLoginRequest"))
       \/ \E login \in Creds :
            /\ calls' = Append(Resolve(calls, login), Call("setLoggedIn", <<login>>))
            /\ pc' = "complete:setLoggedIn"
            /\ ret' = ret
    /\ UNCHANGED <<session, op, generated, cancelled, pair>>

\* const login = await sendLoginRequest(...);  await setLoggedIn(login);
CompleteLoggedIn ==
    /\ pc = "complete:login"
    /\ \/ /\ calls' = calls
          /\ End(Rejected("sendLoginRequest"))
       \/ \E login \in Creds :
            /\ calls' = Append(Resolve(calls, login), Call("setLoggedIn", <<login>>))
            /\ pc' = "complete:setLoggedIn"
            /\ ret' = ret
    /\ UNCHANGED <<session, op, generated, cancelled, pair>>

\* const { deviceId, userId } = login; ... await this.channel.send(data);
CompleteSessionSet ==
    /\ pc = "complete:setLoggedIn"
    /\ LET deviceId == Login.deviceId
           userId == Login.userId
           peg(crypto) == [Call("MatrixClientPeg.get", <<>>) EXCEPT
                              !.res = Some([crypto |-> crypto])]
           raw(devices) == [Call("getRawStoredDevicesForUser", <<userId>>) EXCEPT
                              !.res = devices]
       IN  \/ \E devices \in {None} \cup {Some(d) : d \in RawStores} :
                IF DeviceUnknown(devices, deviceId)
                THEN /\ calls' = calls \o <<peg(TRUE), raw(devices)>>
                     /\ End(UnknownDeviceError(userId, deviceId))
                ELSE /\ calls' = calls \o <<peg(TRUE), raw(devices),
                            Call("channel.send",
                                 <<KeysReport(deviceId, Some(StoredKeys(devices, deviceId)))>>)>>
                     /\ pc' = "complete:send"
                     /\ ret' = ret
           \/ /\ calls' = calls \o <<peg(FALSE),
                            Call("channel.send", <<KeysReport(deviceId, None)>>)>>
              /\ pc' = "complete:send"
              /\ ret' = ret
    /\ UNCHANGED <<session, op, generated, cancelled, pair>>

\* return login;
CompleteSent ==
    /\ pc = "complete:send"
    /\ calls' = calls
    /\ End(Return(Some(Login)))
    /\ UNCHANGED <<session, op, generated, cancelled, pair>>

-----------------------------------------------------------------------------
(* startOnExistingDevice(), declineLoginOnExistingDevice() *)

StartOnExistingDevice ==
    /\ Begin("startOnExistingDevice")
    /\ calls' = <<Call("channel.connect", <<>>)>>
    /\ pc' = "start:connect"
    /\ ret' = NotEnded
    /\ UNCHANGED <<session, generated, cancelled, pair>>

\* const digits = await this.channel.connect(); ... return true;
StartConnected ==
    /\ pc = "start:connect"
    /\ \/ /\ calls' = calls
          /\ End(Rejected("channel.connect"))
       \/ \E digits \in Digits :
            /\ calls' = Resolve(calls, digits)
                         \o ConfirmationDigits(digits, onConfirmationDigits)
            /\ End(Return(Some(TRUE)))
    /\ UNCHANGED <<session, op, generated, cancelled, pair>>

\* another outcome sent
DeclineAsFailure == [EmptyPayload EXCEPT !.outcome = "failed"]

\* { outcome: 'declined' }
Decline == [EmptyPayload EXCEPT !.outcome = "declined"]

DeclineLoginOnExistingDevice ==
    /\ Begin("declineLoginOnExistingDevice")
    /\ calls' = <<Call("channel.send", <<Decline>>)>>
    /\ pc' = "decline:send"
    /\ ret' = NotEnded
    /\ UNCHANGED <<session, generated, cancelled, pair>>

DeclineSent ==
    /\ pc = "decline:send"
    /\ calls' = calls
    /\ End(Return(None))
    /\ UNCHANGED <<session, op, generated, cancelled, pair>>

-----------------------------------------------------------------------------
(* confirmLoginOnExistingDevice() *)

\* the offer tagged with an outcome
LoginOfferTagged(client, login_token) ==
    [EmptyPayload EXCEPT !.outcome = "offer", !.user = client.userId,
                         !.homeserver = client.baseUrl, !.login_token = login_token]

\* { user: this.cli.getUserId(), homeserver: this.cli.baseUrl, login_token }
LoginOffer(client, login_token) ==
    [EmptyPayload EXCEPT !.user = client.userId, !.homeserver = client.baseUrl,
                         !.login_token = login_token]

\* const { outcome, deviceId, deviceKeys } = res
ReportView(p) ==
    [outcome |-> p.outcome, deviceId |-> p.deviceId, deviceKeys |-> p.deviceKeys]

\* only a declined outcome taken for a failure
LinkingDeclined(v) == v.outcome = "declined"

\* if (outcome !== 'success')
LinkingFailed(v) == v.outcome # "success"

\* a string-typed value as a method returns it
Returned(s) == IF s = Undefined THEN None ELSE Some(s)

ConfirmLoginOnExistingDevice ==
    /\ Begin("confirmLoginOnExistingDevice")
    /\ IF cli = None
       THEN /\ calls' = <<>>
            /\ End(TypeError("this.cli.http"))
       ELSE /\ calls' = <<Call("authedRequest", <<Undefined, "POST", "/login/token">>)>>
            /\ pc' = "confirm:token"
            /\ ret' = NotEnded
    /\ UNCHANGED <<session, generated, cancelled, pair>>

\* const { login_token } = await this.cli.http.authedRequest(...);
\* await this.channel.send({ user, homeserver, login_token });
ConfirmTokenGranted ==
    /\ pc = "confirm:token"
    /\ \/ /\ calls' = calls
          /\ End(Rejected("authedRequest"))
       \/ \E login_token \in LoginTokens :
            /\ calls' = Append(Resolve(calls, login_token),
                               Call("channel.send", <<LoginOffer(Value(cli), login_token)>>))
            /\ pc' = "confirm:send"
            /\ ret' = ret
    /\ UNCHANGED <<session, op, generated, cancelled, pair>>

\* const res = await this.channel.receive();
ConfirmSent ==
    /\ pc = "confirm:send"
    /\ calls' = Append(calls, Call("channel.receive", <<>>))
    /\ pc' = "confirm:receive"
    /\ UNCHANGED <<session, op, ret, generated, cancelled, pair>>

\* if (!res) return undefined; ... return deviceId;
ConfirmReceived ==
    /\ pc = "confirm:receive"
    /\ \/ /\ calls' = calls
          /\ End(NoResult)
          /\ UNCHANGED <<newDeviceId, newDeviceKeys>>
       \/ \E p \in Payloads :
            LET v == ReportView(p)
            IN  /\ calls' = Resolve(calls, v)
                /\ IF LinkingFailed(v)
                   THEN /\ End(Throw("Linking failed", ""))
                        /\ UNCHANGED <<newDeviceId, newDeviceKeys>>
                   ELSE /\ newDeviceId' = v.deviceId
                        /\ newDeviceKeys' = v.deviceKeys
                        /\ End(Return(Returned(v.deviceId)))
    /\ UNCHANGED <<cli, code, hooks, op, generated, cancelled, pair>>

-----------------------------------------------------------------------------
(* crossSign(timeout), checkAndCrossSignDevice(deviceInfo) *)

\* deviceInfo.keys[keyId]
KeyOf(keys, keyId) == IF keyId \in DOMAIN keys THEN keys[keyId] ELSE Undefined

\* the key ids the loop over Object.keys(this.newDeviceKeys) can stop at
Mismatches(stored, reported) ==
    {keyId \in DOMAIN reported : KeyOf(stored, keyId) # reported[keyId]}

\* only the numbers of keys compared
KeyCountMismatch(stored, reported) ==
    LET expected == Cardinality(DOMAIN stored)
        actual == Cardinality(DOMAIN reported)
    IN  IF expected # actual
        THEN {Throw("New device has different keys than expected: ",
                    ToString(expected) \o " vs " \o ToString(actual))}
        ELSE {}

\* the throws of checkAndCrossSignDevice for the stored and the reported
\* keys: none when the device is to be verified.  The loop stops at the first
\* key id, in the object's own order, whose values differ; the maps here
\* are unordered, so that is any of the differing ones.
KeyMismatch(stored, reported) ==
    LET expected == Cardinality(DOMAIN stored)
        actual == Cardinality(DOMAIN reported)
    IN  IF expected # actual
        THEN {Throw("New device has different keys than expected: ",
                    ToString(expected) \o " vs " \o ToString(actual))}
        ELSE {Throw("New device has different keys than expected for ", keyId) :
                keyId \in Mismatches(stored, reported)}

\* this.cli.crypto.setDeviceVerification(userId, this.newDeviceId, true, false, true)
SetDeviceVerification(userId, deviceId) ==
    Call("setDeviceVerification", <<userId, deviceId, TRUE, FALSE, TRUE>>)

\* the precondition not checked
AnyNewDevice(deviceId) == FALSE

\* !this.newDeviceId
NoNewDevice(deviceId) == Falsy(deviceId)

\* an empty key map not taken for no keys
NewDeviceKeysAbsent(keys) == keys = None

\* !this.newDeviceKeys || Object.values(this.newDeviceKeys).length === 0
NoNewDeviceKeys(keys) == keys = None \/ DOMAIN Value(keys) = {}

\* cli.crypto.getStoredDevice(cli.getUserId(), this.newDeviceId), and what
\* follows it when the device is there: checkAndCrossSignDevice(deviceInfo)
Lookup(before, missing, missingPc) ==
    \E deviceInfo \in {None} \cup {Some(d) : d \in DeviceInfos} :
        LET userId == Value(cli).userId
            looked == Append(before,
                        [Call("getStoredDevice", <<userId, newDeviceId>>) EXCEPT
                            !.res = deviceInfo])
        IN  IF deviceInfo = None
            THEN /\ calls' = looked \o missing
                 /\ IF missingPc = "idle"
                    THEN End(Throw("Device not online within timeout", ""))
                    ELSE pc' = missingPc /\ ret' = NotEnded
            ELSE LET errors == KeyMismatch(Value(deviceInfo).keys, Value(newDeviceKeys))
                 IN  IF errors # {}
                     THEN /\ calls' = looked
                          /\ \E e \in errors : End(e)
                     ELSE /\ calls' = Append(looked, SetDeviceVerification(userId, newDeviceId))
                          /\ pc' = "crossSign:verify"
                          /\ ret' = NotEnded

CrossSign(timeout) ==
    /\ Begin("crossSign")
    /\ IF NoNewDevice(newDeviceId)
       THEN /\ calls' = <<>>
            /\ End(Throw("No new device to sign", ""))
       ELSE IF NoNewDeviceKeys(newDeviceKeys)
       THEN /\ calls' = <<>>
            /\ End(Return(None))
       ELSE IF cli = None
       THEN /\ calls' = <<>>
            /\ End(TypeError("cli.crypto"))
       ELSE Lookup(<<>>, <<Call("sleep", <<timeout>>)>>, "crossSign:sleep")
    /\ UNCHANGED <<session, generated, cancelled, pair>>

\* the wait repeated for as long as the device is missing
CrossSignPolls ==
    /\ pc = "crossSign:sleep"
    /\ Len(calls) < 6
    /\ Lookup(calls, <<Call("sleep", <<DefaultTimeout>>)>>, "crossSign:sleep")
    /\ UNCHANGED <<session, op, generated, cancelled, pair>>

\* await sleep(timeout); ... throw new Error('Device not online within timeout');
CrossSignSlept ==
    /\ pc = "crossSign:sleep"
    /\ Lookup(calls, <<>>, "idle")
    /\ UNCHANGED <<session, op, generated, cancelled, pair>>

\* return await this.cli.crypto.setDeviceVerification(...)
CrossSignVerified ==
    /\ pc = "crossSign:verify"
    /\ \E record \in VerificationRecords :
        /\ calls' = Resolve(calls, record)
        /\ End(Return(Some(record)))
    /\ UNCHANGED <<session, op, generated, cancelled, pair>>

Next ==
    \/ SetOnConfirmationDigits
    \/ GenerateCode
    \/ GenerateCodeGenerated
    \/ \E reason \in Reasons : Cancel(reason)
    \/ UserCancelled
    \/ CompleteOnNewDevice
    \/ CompleteConnected
    \/ CompleteReceived
    \/ CompleteCancelled
    \/ CompleteLoggedIn
    \/ CompleteSessionSet
    \/ CompleteSent
    \/ StartOnExistingDevice
    \/ StartConnected
    \/ DeclineLoginOnExistingDevice
    \/ DeclineSent
    \/ ConfirmLoginOnExistingDevice
    \/ ConfirmTokenGranted
    \/ ConfirmSent
    \/ ConfirmReceived
    \/ \E timeout \in Timeouts : CrossSign(timeout)
    \/ CrossSignSlept
    \/ CrossSignVerified

Spec == Init /\ [][Next]_vars

\* the session with an onCancelled observer as well
NextObserved ==
    \/ SetOnCancelled
    \/ Next

SpecObserved == Init /\ [][NextObserved]_vars

-----------------------------------------------------------------------------
(* Two sessions over one reliable channel: an existing device, which runs
   startOnExistingDevice and then one of confirmLoginOnExistingDevice and
   declineLoginOnExistingDevice, and a new device, which runs
   completeOnNewDevice.  The variables hold the session that takes the next
   step and parked holds the other one.  What a session receives is what its
   peer sent: each side sends at most one payload here, so the payload on its
   way to a session is the first channel.send of its peer. *)

\* the session the variables hold, as a value
Device ==
    [cli |-> cli, code |-> code, newDeviceId |-> newDeviceId,
     newDeviceKeys |-> newDeviceKeys, onConfirmationDigits |-> onConfirmationDigits,
     onCancelled |-> onCancelled, op |-> op, pc |-> pc, calls |-> calls, ret |-> ret,
     generated |-> generated, cancelled |-> cancelled]

\* new Rendezvous(channel, cli)
Fresh(client) ==
    [cli |-> client, code |-> Undefined, newDeviceId |-> Undefined,
     newDeviceKeys |-> None, onConfirmationDigits |-> FALSE, onCancelled |-> FALSE,
     op |-> "", pc |-> "idle", calls |-> <<>>, ret |-> NotEnded,
     generated |-> 0, cancelled |-> <<>>]

InitPair ==
    /\ cli \in {Some(c) : c \in Clients}
    /\ code = Undefined
    /\ newDeviceId = Undefined
    /\ newDeviceKeys = None
    /\ onConfirmationDigits = FALSE
    /\ onCancelled = FALSE
    /\ op = ""
    /\ pc = "idle"
    /\ calls = <<>>
    /\ ret = NotEnded
    /\ generated = 0
    /\ cancelled = <<>>
    /\ role = "existing"
    /\ parked = Fresh(None)

\* the other device takes the next steps
Switch ==
    /\ role \in {"existing", "new"}
    /\ role' = IF role = "existing" THEN "new" ELSE "existing"
    /\ parked' = Device
    /\ cli' = parked.cli
    /\ code' = parked.code
    /\ newDeviceId' = parked.newDeviceId
    /\ newDeviceKeys' = parked.newDeviceKeys
    /\ onConfirmationDigits' = parked.onConfirmationDigits
    /\ onCancelled' = parked.onCancelled
    /\ op' = parked.op
    /\ pc' = parked.pc
    /\ calls' = parked.calls
    /\ ret' = parked.ret
    /\ generated' = parked.generated
    /\ cancelled' = parked.cancelled

On(r) == role = r
\* startOnExistingDevice ran and no other method since
StartEnded == op = "startOnExistingDevice" /\ pc = "idle"

IsSend(c) == c.fn = "channel.send"
\* the payloads the peer handed to channel.send, in order
SentByPeer == SelectSeq(parked.calls, IsSend)

\* the payload on its way from the peer, if there is one
OnItsWay == IF SentByPeer = <<>> THEN EmptyPayload ELSE SentByPeer[1].args[1]

\* the pending channel.receive() resolves in this step with the payload on
\* its way from the peer, as the receiving method reads it (view), or with
\* nothing when none is on its way
Delivered(view) ==
    calls'[Len(calls)].res = IF SentByPeer = <<>> THEN None ELSE Some(view)

PairNext ==
    \/ Switch
    \/ On("new") /\ op = "" /\ CompleteOnNewDevice
    \/ On("new") /\ CompleteConnected
    \/ On("new") /\ CompleteReceived /\ Delivered(OfferView(OnItsWay))
    \/ On("new") /\ CompleteCancelled
    \/ On("new") /\ CompleteLoggedIn
    \/ On("new") /\ CompleteSessionSet
    \/ On("new") /\ CompleteSent
    \/ On("existing") /\ op = "" /\ StartOnExistingDevice
    \/ On("existing") /\ StartConnected
    \/ On("existing") /\ StartEnded /\ DeclineLoginOnExistingDevice
    \/ On("existing") /\ DeclineSent
    \/ On("existing") /\ StartEnded /\ ConfirmLoginOnExistingDevice
    \/ On("existing") /\ ConfirmTokenGranted
    \/ On("existing") /\ ConfirmSent
    \/ On("existing") /\ ConfirmReceived /\ Delivered(ReportView(OnItsWay))

SpecPair == InitPair /\ [][PairNext]_vars

-----------------------------------------------------------------------------
(* Reading a run *)

Running(name) == op = name
Ended(name) == op = name /\ pc = "idle"
Returned_(v) == ret.kind = "return" /\ ret.val = v
Threw(msgs) == ret.kind = "throw" /\ Value(ret.err).msg \in msgs
Count(fn) == Cardinality(CallsOf(fn))
TheCall(fn) == calls[CHOOSE i \in CallsOf(fn) : TRUE]
LastCall == calls[Len(calls)]

\* the error kinds of the specification, by the messages thrown
ProtocolError == {"No homeserver returned", "No login token returned"}
KeyMismatchError == {"New device has different keys than expected: ",
                     "New device has different keys than expected for "}
NoDeviceToSignError == {"No new device to sign"}
DeviceTimeoutError == {"Device not online within timeout"}
LinkingFailedError == {"Linking failed"}

\* the stored device a crossSign run found, if it found one
FoundAt == {i \in CallsOf("getStoredDevice") : calls[i].res # None}
FoundKeys == Value(calls[CHOOSE i \in FoundAt : TRUE].res).keys

\* the payload a run of completeOnNewDevice / confirmLoginOnExistingDevice
\* received, if it received one
ReceivedAt == {i \in CallsOf("channel.receive") : calls[i].res # None}
Received == Value(calls[CHOOSE i \in ReceivedAt : TRUE].res)
\* channel.receive() yielded nothing and the method ended
ReceivedNothing ==
    /\ pc = "idle" /\ calls # <<>>
    /\ LastCall.fn = "channel.receive" /\ LastCall.res = None

-----------------------------------------------------------------------------
(* C1: in a run of crossSign that finds the stored device, the device is
   marked verified (setDeviceVerification(userId, newDeviceId, true, false,
   true)) exactly when the stored key map equals the remembered newDeviceKeys,
   and the run then returns the verification record; when the maps differ (in
   size or in a value) the run fails with KeyMismatchError and
   setDeviceVerification is not called.  It is never called without a found
   device. *)
C1_VerifiedOnlyOnExactMatch ==
    Running("crossSign") =>
        /\ Called("setDeviceVerification") => FoundAt # {}
        /\ FoundAt # {} =>
            IF FoundKeys = Value(newDeviceKeys)
            THEN /\ Count("setDeviceVerification") = 1
                 /\ TheCall("setDeviceVerification").args =
                        <<Value(cli).userId, newDeviceId, TRUE, FALSE, TRUE>>
                 /\ IF pc = "idle"
                    THEN /\ TheCall("setDeviceVerification").res # None
                         /\ Returned_(TheCall("setDeviceVerification").res)
                    ELSE pc = "crossSign:verify"
            ELSE /\ ~Called("setDeviceVerification")
                 /\ pc = "idle"
                 /\ Threw(KeyMismatchError)

\* a device with two matching keys was verified
C1_Witness ==
    /\ Ended("crossSign") /\ FoundAt # {}
    /\ Cardinality(DOMAIN FoundKeys) = 2
    /\ FoundKeys = Value(newDeviceKeys)
    /\ Called("setDeviceVerification") /\ ret.kind = "return"

(* C2: a run of completeOnNewDevice that received a payload whose outcome is
   not 'declined' and that lacks homeserver or login_token has failed with a
   ProtocolError, and has called neither sendLoginRequest nor setLoggedIn nor
   channel.send. *)
C2_IncompleteOfferFails ==
    (/\ Running("completeOnNewDevice") /\ ReceivedAt # {}
     /\ Received.outcome # "declined"
     /\ (Received.homeserver = Undefined \/ Received.login_token = Undefined))
    => /\ pc = "idle"
       /\ Threw(ProtocolError)
       /\ ~Called("sendLoginRequest")
       /\ ~Called("setLoggedIn")
       /\ ~Called("channel.send")

\* an offer with a homeserver and no token was refused
C2_Witness ==
    /\ Ended("completeOnNewDevice") /\ ReceivedAt # {}
    /\ Received.outcome = Undefined
    /\ Received.homeserver \in Homeservers
    /\ Received.login_token = Undefined
    /\ Threw({"No login token returned"})

(* C3: a run of completeOnNewDevice that received a payload with outcome
   'declined', whatever else it carries, has forwarded cancel(UserDeclined) to
   the channel exactly once, has called neither sendLoginRequest nor
   setLoggedIn nor channel.send, and ends returning no result. *)
C3_DeclinedCancelsOnce ==
    (/\ Running("completeOnNewDevice") /\ ReceivedAt # {}
     /\ Received.outcome = "declined")
    => /\ Count("channel.transport.cancel") = 1
       /\ TheCall("channel.transport.cancel").args = <<"UserDeclined">>
       /\ ~Called("sendLoginRequest")
       /\ ~Called("setLoggedIn")
       /\ ~Called("channel.send")
       /\ pc \in {"complete:cancel", "idle"}
       /\ pc = "idle" => Returned_(None)

\* a declined payload that also carries a homeserver and a token
C3_Witness ==
    /\ Ended("completeOnNewDevice") /\ ReceivedAt # {}
    /\ Received.outcome = "declined"
    /\ Received.homeserver \in Homeservers
    /\ Received.login_token \in LoginTokens
    /\ Returned_(None)
    /\ cancelled = <<"UserDeclined">>

(* C4: when channel.receive() yields nothing the waiting method returns no
   result and does not fail: completeOnNewDevice without having called
   sendLoginRequest, setLoggedIn, channel.send or cancel, and
   confirmLoginOnExistingDevice leaving newDeviceId and newDeviceKeys as they
   were. *)
C4_NothingReceivedIsNoResult ==
    [][(ReceivedNothing' /\ pc # "idle") =>
        /\ Returned_(None)'
        /\ op \in {"completeOnNewDevice", "confirmLoginOnExistingDevice"}
        /\ op = "completeOnNewDevice" =>
            /\ ~Called("sendLoginRequest")'
            /\ ~Called("setLoggedIn")'
            /\ ~Called("channel.send")'
            /\ ~Called("channel.transport.cancel")'
            /\ cancelled' = cancelled
        /\ newDeviceId' = newDeviceId
        /\ newDeviceKeys' = newDeviceKeys]_vars

\* confirmLoginOnExistingDevice got nothing back on a session that already
\* remembers a device
C4_Witness ==
    /\ Ended("confirmLoginOnExistingDevice") /\ ReceivedNothing
    /\ newDeviceId \in DeviceIds
    /\ Returned_(None)

(* C5: channel.generateCode() is invoked at most once on a session, and once
   the session holds a code no step changes it or invokes
   channel.generateCode() again: a later generateCode() returns at once. *)
C5_GenerateCodeIdempotent ==
    [][/\ generated' <= 1
       /\ code # Undefined =>
            /\ code' = code
            /\ generated' = generated
            /\ (/\ pc = "idle" /\ op' = "generateCode"
                /\ cancelled' = cancelled /\ hooks' = hooks)
                    => pc' = "idle" /\ calls' = <<>> /\ Returned_(None)']_vars

\* generateCode() was called on a session that holds a code
C5_Witness ==
    /\ Ended("generateCode") /\ calls = <<>> /\ Returned_(None)
    /\ code # Undefined /\ generated = 1

(* C6: when confirmLoginOnExistingDevice receives a response, it fails with
   LinkingFailedError and leaves newDeviceId and newDeviceKeys unchanged if
   the response's outcome is not 'success'; otherwise it records the
   response's deviceId and deviceKeys as newDeviceId and newDeviceKeys and
   returns that device id. *)
C6_ConfirmRecordsOnSuccessOnly ==
    [][(/\ pc = "confirm:receive" /\ pc' = "idle"
        /\ LastCall'.fn = "channel.receive" /\ LastCall'.res # None) =>
        LET res == Value(LastCall'.res)
        IN  IF res.outcome # "success"
            THEN /\ Threw(LinkingFailedError)'
                 /\ newDeviceId' = newDeviceId
                 /\ newDeviceKeys' = newDeviceKeys
            ELSE /\ newDeviceId' = res.deviceId
                 /\ newDeviceKeys' = res.deviceKeys
                 /\ ret'.kind = "return"
                 /\ ret'.val = IF res.deviceId = Undefined THEN None
                                ELSE Some(res.deviceId)]_vars

\* a response without an outcome was refused on a session that already
\* remembers a device
C6_Witness ==
    /\ Ended("confirmLoginOnExistingDevice") /\ ReceivedAt # {}
    /\ Received.outcome = Undefined
    /\ Received.deviceId = "DEV2"
    /\ Threw(LinkingFailedError)
    /\ newDeviceId = "DEV1"

(* C7: newDeviceId and newDeviceKeys are written only by a
   confirmLoginOnExistingDevice that received a response with outcome
   'success'; every other step leaves them unchanged.  While they are as
   constructed, crossSign fails with NoDeviceToSignError and looks up no
   device, does not sleep and does not call setDeviceVerification. *)
C7_NoDeviceToSignBeforeSuccess ==
    [][/\ (newDeviceId' # newDeviceId \/ newDeviceKeys' # newDeviceKeys) =>
            /\ op = "confirmLoginOnExistingDevice"
            /\ pc = "confirm:receive" /\ pc' = "idle"
            /\ LastCall'.res # None
            /\ Value(LastCall'.res).outcome = "success"
            /\ ret'.kind = "return"
       /\ (/\ pc = "idle" /\ op' = "crossSign" /\ cancelled' = cancelled
           /\ newDeviceId = Undefined /\ newDeviceKeys = None) =>
            /\ pc' = "idle"
            /\ Threw(NoDeviceToSignError)'
            /\ calls' = <<>>]_vars

\* crossSign was refused on a session of an existing device that remembers
\* no new device
C7_Witness ==
    /\ Ended("crossSign") /\ Threw(NoDeviceToSignError) /\ calls = <<>>
    /\ newDeviceId = Undefined /\ newDeviceKeys = None
    /\ cli # None

(* C8: with newDeviceId set and newDeviceKeys absent or empty, crossSign
   returns 'nothing to sign': it does not fail, looks up no device, does not
   sleep and does not call setDeviceVerification. *)
C8_NoKeysNothingToSign ==
    (/\ Running("crossSign") /\ newDeviceId # Undefined
     /\ (newDeviceKeys = None \/ newDeviceKeys = Some(<<>>)))
    => /\ pc = "idle"
       /\ Returned_(None)
       /\ calls = <<>>

\* the new device reported an empty key map
C8_Witness ==
    /\ Ended("crossSign") /\ newDeviceId \in DeviceIds
    /\ newDeviceKeys = Some(<<>>)
    /\ Returned_(None)

(* C9: with newDeviceId set and newDeviceKeys not empty, a run of crossSign
   looks up the stored device at most twice and sleeps at most once.  Its
   first call is a lookup; if that finds the device there is no sleep and no
   second lookup; if not, it sleeps once, for the timeout it was given, and
   looks up once more; a device found then is checked like one found at
   once, and verified when its keys match; if it is still missing the run
   fails with DeviceTimeoutError and setDeviceVerification is not called. *)
C9_CheckWaitOnceCheckAgain ==
    (/\ Running("crossSign") /\ newDeviceId # Undefined
     /\ newDeviceKeys # None /\ newDeviceKeys # Some(<<>>))
    => /\ Count("getStoredDevice") \in {1, 2}
       /\ Count("sleep") <= 1
       /\ \A i \in DOMAIN calls :
            calls[i].fn \in {"getStoredDevice", "sleep", "setDeviceVerification"}
       /\ calls[1].fn = "getStoredDevice"
       /\ IF calls[1].res # None
          THEN /\ Count("getStoredDevice") = 1
               /\ Count("sleep") = 0
          ELSE /\ calls[2].fn = "sleep"
               /\ calls[2].args[1] \in Timeouts
               /\ IF pc = "crossSign:sleep"
                  THEN Len(calls) = 2
                  ELSE /\ Count("getStoredDevice") = 2
                       /\ calls[3].fn = "getStoredDevice"
                       /\ IF calls[3].res = None
                          THEN /\ pc = "idle"
                               /\ Threw(DeviceTimeoutError)
                               /\ ~Called("setDeviceVerification")
                          ELSE Value(calls[3].res).keys = Value(newDeviceKeys)
                                => /\ Called("setDeviceVerification")
                                   /\ pc = "idle" => ret.kind = "return"

\* the device was missing at first, there after the wait, and was verified
C9_Witness ==
    /\ Ended("crossSign") /\ Len(calls) = 4
    /\ calls[1].res = None
    /\ calls[2].fn = "sleep" /\ calls[2].args = <<DefaultTimeout>>
    /\ calls[3].res # None
    /\ calls[4].fn = "setDeviceVerification"
    /\ ret.kind = "return"

(* C10: the one payload completeOnNewDevice sends is a KeysReport with
   outcome 'success', the device id of the credentials the login call
   returned, and as deviceKeys the keys stored for exactly that user id and
   device id when the client is crypto-capable, none when it is not; the run
   then returns those credentials. *)
C10_KeysReportOfLoggedInDevice ==
    (Running("completeOnNewDevice") /\ Called("channel.send")) =>
        LET login == Value(TheCall("sendLoginRequest").res)
            client == Value(TheCall("MatrixClientPeg.get").res)
            data == TheCall("channel.send").args[1]
        IN  /\ Count("channel.send") = 1
            /\ TheCall("setLoggedIn").args = <<login>>
            /\ data.outcome = "success"
            /\ data.deviceId = login.deviceId
            /\ data.user = Undefined
            /\ data.homeserver = Undefined
            /\ data.login_token = Undefined
            /\ IF client.crypto
               THEN LET lookup == TheCall("getRawStoredDevicesForUser")
                    IN  /\ lookup.args = <<login.userId>>
                        /\ lookup.res # None
                        /\ login.deviceId \in DOMAIN Value(lookup.res)
                        /\ data.deviceKeys = Some(Value(lookup.res)[login.deviceId].keys)
               ELSE /\ data.deviceKeys = None
                    /\ ~Called("getRawStoredDevicesForUser")
            /\ pc \in {"complete:send", "idle"}
            /\ pc = "idle" => Returned_(Some(login))

\* login as DEV1 of @alice:example.org, the stored DEV1 has the keys
\* {ed25519: K1} and the stored DEV2 others: the report carries those of DEV1
C10_Witness ==
    /\ Ended("completeOnNewDevice") /\ Called("channel.send")
    /\ Value(TheCall("sendLoginRequest").res).deviceId = "DEV1"
    /\ Value(TheCall("sendLoginRequest").res).userId = "@alice:example.org"
    /\ Called("getRawStoredDevicesForUser")
    /\ DOMAIN Value(TheCall("getRawStoredDevicesForUser").res) = DeviceIds
    /\ Value(TheCall("getRawStoredDevicesForUser").res)["DEV2"].keys = <<>>
    /\ TheCall("channel.send").args[1] =
          [outcome |-> "success", user |-> Undefined, homeserver |-> Undefined,
           login_token |-> Undefined, deviceId |-> "DEV1",
           deviceKeys |-> Some([k \in {"ed25519"} |-> "K1"])]

(* C11: declineLoginOnExistingDevice sends exactly one payload,
   {outcome: 'declined'}, and calls nothing else: it does not connect, receive
   or cancel and requests no login token; it leaves code, newDeviceId and
   newDeviceKeys unchanged and returns nothing. *)
C11_DeclineSendsOnlyDecline ==
    [][op' = "declineLoginOnExistingDevice" =>
        /\ Len(calls') = 1
        /\ calls'[1].fn = "channel.send"
        /\ calls'[1].args =
              <<[outcome |-> "declined", user |-> Undefined, homeserver |-> Undefined,
                 login_token |-> Undefined, deviceId |-> Undefined, deviceKeys |-> None]>>
        /\ code' = code
        /\ newDeviceId' = newDeviceId
        /\ newDeviceKeys' = newDeviceKeys
        /\ pc' \in {"decline:send", "idle"}
        /\ pc' = "idle" => Returned_(None)']_vars

\* the decline was sent on a session that holds a code and remembers a device
C11_Witness ==
    /\ Ended("declineLoginOnExistingDevice") /\ Returned_(None)
    /\ Len(calls) = 1
    /\ code # Undefined /\ newDeviceId \in DeviceIds

-----------------------------------------------------------------------------
(* Reading a step *)

\* a method begins: a step from idle that is neither the owner's cancel() nor
\* the owner setting a hook
Begins == pc = "idle" /\ cancelled' = cancelled /\ hooks' = hooks
\* the calls made in a step
MadeNow ==
    IF Begins THEN DOMAIN calls' ELSE {i \in DOMAIN calls' : i > Len(calls)}
\* cancel(reason) or userCancelled() is called by the owner, not by the
\* declined branch of completeOnNewDevice
OwnerCancels ==
    /\ cancelled' # cancelled
    /\ ~(pc = "complete:receive" /\ pc' = "complete:cancel")

ProtocolSteps ==
    {"channel.send", "authedRequest", "sendLoginRequest", "setLoggedIn",
     "setDeviceVerification"}

(* C12: once a cancellation was forwarded to the channel, the
   session makes no further channel.send, login-token request, login call,
   setLoggedIn or setDeviceVerification, neither in a method in flight nor in
   one invoked afterwards. *)
C12_CancelIsTerminal ==
    [][cancelled # <<>> => \A i \in MadeNow : calls'[i].fn \notin ProtocolSteps]_vars

-----------------------------------------------------------------------------
\* the lookup of completeOnNewDevice in local device storage found no entry
\* for the logged-in device
LookupAt == {i \in DOMAIN calls : calls[i].fn = "getRawStoredDevicesForUser"}
NothingStored ==
    /\ Running("completeOnNewDevice")
    /\ LookupAt # {}
    /\ LET i == CHOOSE i \in LookupAt : TRUE
       IN  \/ calls[i].res = None
           \/ Login.deviceId \notin DOMAIN Value(calls[i].res)

(* C13: when the new device's client has crypto and local device storage has
   no entry for the logged-in (userId, deviceId), completeOnNewDevice throws
   "Unknown device <userId>:<deviceId>" and sends nothing on the channel; the
   login call had resolved and setLoggedIn had been called with its result,
   and no call made afterwards undoes it. *)
C13_UnknownDeviceAfterLogin ==
    NothingStored =>
        /\ pc = "idle"
        /\ ret = Throw("Unknown device ", Login.userId \o ":" \o Login.deviceId)
        /\ ~Called("channel.send")
        /\ Value(TheCall("MatrixClientPeg.get").res).crypto
        /\ TheCall("getRawStoredDevicesForUser").args = <<Login.userId>>
        /\ Count("sendLoginRequest") = 1
        /\ TheCall("sendLoginRequest").res = Some(Login)
        /\ Count("setLoggedIn") = 1
        /\ TheCall("setLoggedIn").args = <<Login>>
        /\ LastCall.fn = "getRawStoredDevicesForUser"

\* storage holds devices of the user, but not the one logged in as
C13_Witness ==
    /\ NothingStored
    /\ Ended("completeOnNewDevice")
    /\ TheCall("getRawStoredDevicesForUser").res # None
    /\ Count("setLoggedIn") = 1

-----------------------------------------------------------------------------
\* confirmLoginOnExistingDevice received a report of success that names no
\* device
SuccessWithoutDevice ==
    /\ Running("confirmLoginOnExistingDevice")
    /\ ReceivedAt # {}
    /\ Received.outcome = "success"
    /\ Received.deviceId = Undefined

(* C14: when confirmLoginOnExistingDevice receives a payload with outcome
   'success' and no deviceId, it fails: it throws, it does not return, and
   newDeviceId is not left recorded as unset by that payload. *)
C14_SuccessWithoutDeviceIdFails ==
    SuccessWithoutDevice => pc = "idle" /\ ret.kind = "throw"

-----------------------------------------------------------------------------
\* the payload a run of confirmLoginOnExistingDevice sent
Offered ==
    Running("confirmLoginOnExistingDevice") /\ Called("channel.send")
Offer == TheCall("channel.send").args[1]

(* C16, as claimed: the payload confirmLoginOnExistingDevice sends carries the
   outcome tag 'offer', the homeserver base URL of the client, the login_token
   the token request of the same call resolved with, and the user id. *)
C16_OfferTagged ==
    Offered =>
        /\ Offer.outcome = "offer"
        /\ Offer.homeserver = Value(cli).baseUrl
        /\ Some(Offer.login_token) = TheCall("authedRequest").res
        /\ Offer.user = Value(cli).userId

(* C16, amended: confirmLoginOnExistingDevice sends exactly one payload, after
   its one token request resolved; the payload carries the user id and the
   homeserver base URL of the client and the login_token that request resolved
   with, and carries no outcome, no deviceId and no deviceKeys. *)
C16_OfferUntagged ==
    Offered =>
        /\ Count("channel.send") = 1
        /\ Count("authedRequest") = 1
        /\ CallsOf("authedRequest") = {1} /\ CallsOf("channel.send") = {2}
        /\ TheCall("authedRequest").args = <<Undefined, "POST", "/login/token">>
        /\ Offer.outcome = Undefined
        /\ Offer.homeserver = Value(cli).baseUrl
        /\ Some(Offer.login_token) = TheCall("authedRequest").res
        /\ Offer.user = Value(cli).userId
        /\ Offer.deviceId = Undefined
        /\ Offer.deviceKeys = None

\* the offer is out and the method waits for the report
C16_Witness ==
    /\ Offered
    /\ pc = "confirm:receive"
    /\ Offer.login_token \in LoginTokens

-----------------------------------------------------------------------------
\* some call before the i-th of the run is a call of fn that resolved with a
\* value satisfying Good
Before(i, fn, Good(_)) ==
    \E j \in 1..(i - 1) :
        calls[j].fn = fn /\ calls[j].res # None /\ Good(Value(calls[j].res))
\* the login request of completeOnNewDevice rejected
LoginFailed ==
    /\ Ended("completeOnNewDevice")
    /\ calls # <<>>
    /\ LastCall.fn = "sendLoginRequest" /\ LastCall.res = None

(* C18: in a run of completeOnNewDevice, sendLoginRequest is called at most
   once and only after channel.receive resolved with a payload holding both
   homeserver and login_token, which it passes on; setLoggedIn is called at
   most once and only with the credentials the login request resolved with;
   channel.send is called at most once, after the setLoggedIn call; and when
   the login request rejects, the method ends with that rejection, with
   setLoggedIn not called and nothing sent. *)
C18_NoRetryStrictOrder ==
    Running("completeOnNewDevice") =>
        /\ Count("sendLoginRequest") <= 1
        /\ \A i \in CallsOf("sendLoginRequest") :
              LET Complete(v) ==
                    /\ ~Falsy(v.homeserver) /\ ~Falsy(v.login_token)
                    /\ calls[i].args =
                          <<v.homeserver, Undefined, "m.login.token", v.login_token>>
              IN  Before(i, "channel.receive", Complete)
        /\ Count("setLoggedIn") <= 1
        /\ \A i \in CallsOf("setLoggedIn") :
              LET Granted(login) == calls[i].args = <<login>>
              IN  /\ Before(i, "sendLoginRequest", Granted)
                  /\ calls[i - 1].fn = "sendLoginRequest"
        /\ Count("channel.send") <= 1
        /\ \A i \in CallsOf("channel.send") :
              \E j \in 1..(i - 1) : calls[j].fn = "setLoggedIn"
        /\ LoginFailed =>
              /\ ret = Rejected("sendLoginRequest")
              /\ ~Called("setLoggedIn")
              /\ ~Called("channel.send")

\* the login request rejected, and the run ended there
C18_Witness ==
    /\ LoginFailed
    /\ Count("sendLoginRequest") = 1
    /\ ReceivedAt # {}

-----------------------------------------------------------------------------
\* completeOnNewDevice or confirmLoginOnExistingDevice is suspended in
\* channel.receive()
InReceive == pc \in {"complete:receive", "confirm:receive"}
\* the pending receive resolves with nothing: the method moves on with the
\* call left without a value
ResolvesWithNothing ==
    /\ InReceive
    /\ pc' # pc
    /\ calls'[Len(calls)].res = None

(* C19: a cancel(reason) called while completeOnNewDevice or
   confirmLoginOnExistingDevice is suspended in channel.receive() forwards the
   reason to the channel once and leaves the method suspended there; when the
   receive then resolves with nothing, the method returns no result, makes no
   further call (no login request, setLoggedIn or send) and records no
   newDeviceId or newDeviceKeys. *)
C19_CooperativeCancel ==
    [][/\ (InReceive /\ OwnerCancels) =>
            /\ \E reason \in Reasons : cancelled' = Append(cancelled, reason)
            /\ UNCHANGED <<op, pc, calls, ret, newDeviceId, newDeviceKeys>>
       /\ (cancelled # <<>> /\ ResolvesWithNothing) =>
            /\ pc' = "idle"
            /\ Returned_(None)'
            /\ calls' = calls
            /\ \A i \in DOMAIN calls' :
                  /\ calls'[i].fn \notin {"sendLoginRequest", "setLoggedIn"}
                  /\ calls'[i].fn = "channel.send" => op = "confirmLoginOnExistingDevice" /\ i = 2
            /\ UNCHANGED <<cancelled, newDeviceId, newDeviceKeys>>]_vars

\* cancelled, and the pending confirmLoginOnExistingDevice came back with
\* nothing
C19_Witness ==
    /\ cancelled = <<"UserCancelled">>
    /\ Ended("confirmLoginOnExistingDevice")
    /\ ReceivedNothing
    /\ newDeviceId = Undefined

-----------------------------------------------------------------------------
\* channel.connect() of the method in flight resolves in this step
Connects ==
    /\ pc \in {"complete:connect", "start:connect"}
    /\ calls'[1].res # None
\* the calls of the observer of the confirmation digits
ShownAt == CallsOf("onConfirmationDigits")
\* in the run so far the observer was called at most once, right after
\* channel.connect() resolved and with the digits it resolved with, and every
\* receive and send of the run came later
DigitsShownFirst ==
    /\ Cardinality(ShownAt) <= 1
    /\ \A i \in ShownAt :
          /\ i = 2
          /\ calls[1].fn = "channel.connect"
          /\ calls[i].args = <<Value(calls[1].res)>>
          /\ \A j \in CallsOf("channel.receive") \cup CallsOf("channel.send") : j > i
    /\ \A j \in CallsOf("channel.receive") \cup CallsOf("channel.send") :
          op \in {"completeOnNewDevice", "startOnExistingDevice"} =>
              \E i \in 1..(j - 1) : calls[i].fn = "channel.connect" /\ calls[i].res # None
\* a run of startOnExistingDevice connects, shows the digits and does nothing
\* else; it returns true where the connect resolved
StartOnlyConnects ==
    Running("startOnExistingDevice") =>
        /\ \A i \in DOMAIN calls :
              calls[i].fn \in {"channel.connect", "onConfirmationDigits"}
        /\ Count("channel.connect") = 1
        /\ (pc = "idle" /\ calls[1].res # None) => Returned_(Some(TRUE))

(* C17: when channel.connect() resolves in startOnExistingDevice or in
   completeOnNewDevice and an onConfirmationDigits observer is set, the
   observer is called once with the digits connect resolved with, before any
   channel.receive or channel.send of the run (with no observer set, no such
   call is made); startOnExistingDevice makes no send, no receive and no
   login-token request, and returns true. *)
C17_DigitsForwardedOnce ==
    [][/\ Connects =>
            IF onConfirmationDigits
            THEN /\ Len(calls') >= 2
                 /\ calls'[2] = Call("onConfirmationDigits", <<Value(calls'[1].res)>>)
            ELSE \A i \in DOMAIN calls' : calls'[i].fn # "onConfirmationDigits"
       /\ DigitsShownFirst'
       /\ StartOnlyConnects']_vars

\* startOnExistingDevice returned true after showing the digits
C17_Witness ==
    /\ Ended("startOnExistingDevice")
    /\ Returned_(Some(TRUE))
    /\ ShownAt = {2}

-----------------------------------------------------------------------------
\* a reason is forwarded to the channel in this step: by cancel(reason), by
\* userCancelled(), or by the declined branch of completeOnNewDevice
Cancels == cancelled' # cancelled
Reason == cancelled'[Len(cancelled')]

(* C15: when an onCancelled observer is set, every step that cancels the
   session (cancel(reason), userCancelled(), the declined branch of
   completeOnNewDevice) calls the observer with the reason of the
   cancellation. *)
C15_OnCancelledFired ==
    [][(onCancelled /\ Cancels) =>
            \E i \in MadeNow :
                calls'[i] = [Call("onCancelled", <<Reason>>) EXCEPT !.res = calls'[i].res]]_vars

-----------------------------------------------------------------------------
\* the two sessions of a pair
NewDevice == IF role = "new" THEN Device ELSE parked
ExistingDevice == IF role = "existing" THEN Device ELSE parked
\* the calls of fn a session made in its run
CallsIn(d, fn) == {i \in DOMAIN d.calls : d.calls[i].fn = fn}
\* the existing device sent an offer with this homeserver and token, the
\* token being the one its token request resolved with
Offers(e, homeserver, token) ==
    /\ e.op = "confirmLoginOnExistingDevice"
    /\ \E i \in CallsIn(e, "authedRequest"), j \in CallsIn(e, "channel.send") :
          /\ i < j
          /\ e.calls[i].res = Some(token)
          /\ e.calls[j].args[1].login_token = token
          /\ e.calls[j].args[1].homeserver = homeserver
          /\ e.calls[j].args[1].homeserver = Value(e.cli).baseUrl
\* the new device logged in as deviceId and reported it with these keys
LoggedInAndReported(n, deviceId, deviceKeys) ==
    /\ \E i \in CallsIn(n, "sendLoginRequest") :
          n.calls[i].res # None /\ Value(n.calls[i].res).deviceId = deviceId
    /\ \E i \in CallsIn(n, "setLoggedIn") : n.calls[i].args[1].deviceId = deviceId
    /\ \E i \in CallsIn(n, "channel.send") :
          /\ n.calls[i].args[1].deviceId = deviceId
          /\ n.calls[i].args[1].deviceKeys = deviceKeys

(* C20: with the two sessions joined by a reliable channel, the new device
   calls sendLoginRequest, and setLoggedIn, only when the existing device sent
   an offer from confirmLoginOnExistingDevice (so never when it declined), and
   with the homeserver and the token of that offer; and when
   confirmLoginOnExistingDevice returns a device id, that id is remembered as
   newDeviceId and, with the remembered newDeviceKeys, is the device id the
   new device logged in as and the keys it reported. *)
C20_TwoPartyAgreement ==
    LET n == NewDevice
        e == ExistingDevice
    IN  /\ \A i \in CallsIn(n, "sendLoginRequest") :
              /\ Offers(e, n.calls[i].args[1], n.calls[i].args[4])
              /\ n.calls[i].args[4] \in LoginTokens
        /\ \A i \in CallsIn(n, "setLoggedIn") : CallsIn(n, "sendLoginRequest") # {}
        /\ e.op = "declineLoginOnExistingDevice" =>
              CallsIn(n, "sendLoginRequest") \cup CallsIn(n, "setLoggedIn") = {}
        /\ (/\ e.op = "confirmLoginOnExistingDevice" /\ e.pc = "idle"
            /\ e.ret.kind = "return" /\ e.ret.val # None) =>
              /\ e.ret.val = Some(e.newDeviceId)
              /\ LoggedInAndReported(n, e.newDeviceId, e.newDeviceKeys)

\* both sides are done: the existing device holds the id and the keys of the
\* device the new one logged in as, after an offer with the second token
C20_Witness ==
    /\ role = "existing"
    /\ Ended("confirmLoginOnExistingDevice")
    /\ newDeviceId \in DeviceIds
    /\ newDeviceKeys # None
    /\ parked.op = "completeOnNewDevice" /\ parked.pc = "idle"
    /\ parked.ret.kind = "return"
    /\ \E i \in CallsIn(parked, "sendLoginRequest") : parked.calls[i].args[4] = "tok2"

====
